---- MODULE Spec2Model ----
(***************************************************************************)
(* Forward-secure public-key encryption (asymmetric ratchet).              *)
(*                                                                         *)
(* The model covers src/src/nodename.rs (the tree addresses NodeName) and  *)
(* src/src/lib.rs (PublicKey, PrivateKey, generate_keypair).  The binary   *)
(* tree encryption primitive (module bte: gen, der, enc, dec) is not part  *)
(* of the sources at hand and is modelled from its contract.               *)
(*                                                                         *)
(* The tree of the program has depth 32 and paths are u32 values; the      *)
(* model scales both to Depth (the path is a Depth-bit unsigned integer).  *)
(***************************************************************************)
EXTENDS Integers, Sequences, FiniteSets, TLC

\* Depth of the key-evolution tree (32 in the program) and width of a path.
Depth == 3

VARIABLES
    pk,         \* the PublicKey  { inner_key, current_name }
    sk,         \* the PrivateKey { public_key, keystack, current_name }
    ct,         \* the Ciphertext in flight (NoCiphertext when there is none)
    sent,       \* history: the payload ct was made from and when
    ret,        \* what the most recent call returned
    panicked,   \* TRUE once a call hit an assert!/unwrap() failure
    pk_trail,   \* history: the values pk.current_name has had, oldest first
    sk_trail,   \* history: the values sk.current_name has had, oldest first
    nn_self,    \* NodeName argument of a call to a NodeName function
    nn_other,   \* second NodeName argument (in_subtree)
    nn_number,  \* u64 argument of NodeName::from_numbering, u32 path of new
    nn_out      \* the NodeName function called last and its result

vars == <<pk, sk, ct, sent, ret, panicked, pk_trail, sk_trail, nn_self, nn_other, nn_number, nn_out>>

protocol_vars == <<pk, sk, ct, sent, ret, panicked, pk_trail, sk_trail>>

nodename_vars == <<nn_self, nn_other, nn_number, nn_out>>

----------------------------------------------------------------------------
(* Integer helpers: 2u64.pow(n) and the bit operators on unsigned values.  *)

RECURSIVE pow(_)
pow(n) == IF n = 0 THEN 1 ELSE 2 * pow(n - 1)

RECURSIVE BitAnd(_, _)
BitAnd(a, b) ==
    IF a = 0 \/ b = 0 THEN 0
    ELSE (a % 2) * (b % 2) + 2 * BitAnd(a \div 2, b \div 2)

RECURSIVE BitXor(_, _)
BitXor(a, b) ==
    IF a = 0 /\ b = 0 THEN 0
    ELSE ((a + b) % 2) + 2 * BitXor(a \div 2, b \div 2)

RECURSIVE BitOr(_, _)
BitOr(a, b) ==
    IF a = 0 /\ b = 0 THEN 0
    ELSE (IF a % 2 = 1 \/ b % 2 = 1 THEN 1 ELSE 0) + 2 * BitOr(a \div 2, b \div 2)

\* u32::MAX, for a path of Depth bits
PATH_MAX == pow(Depth) - 1

\* self.1 << 1 on the fixed-width path (the bit shifted out is lost)
shl1(p) == (2 * p) % pow(Depth)

----------------------------------------------------------------------------
(* NodeName(u8, u32): len is field 0, path is field 1.                     *)

NodeName(length, p) == [len |-> length, path |-> p]

\* Option::None, and the outcome of a failed assert! / unwrap()
None == [len |-> -1, path |-> 0]
Panic == [len |-> -2, path |-> 0]

ROOT == NodeName(0, 0)
MAX == NodeName(Depth, PATH_MAX)

len(self) == self.len

is_empty(self) == len(self) = 0

path(self) == self.path

is_leaf(self) == self.len = Depth

RECURSIVE canonicalized_mask(_, _)
canonicalized_mask(i, mask) ==
    IF i >= Depth THEN mask
    ELSE canonicalized_mask(i + 1, BitXor(mask, pow(i)))

\* canonicalized() whose mask loop starts one bit too high
canonicalized_off_by_one(self) ==
    NodeName(self.len, BitAnd(self.path, canonicalized_mask(self.len + 1, PATH_MAX)))

canonicalized(self) ==
    NodeName(self.len, BitAnd(self.path, canonicalized_mask(self.len, PATH_MAX)))

new(length, p) ==
    IF length <= Depth THEN canonicalized(NodeName(length, p)) ELSE Panic

\* parent() that shortens the name and keeps the path as it is
parent_no_shift(self) ==
    IF self.len > 0 THEN NodeName(self.len - 1, self.path) ELSE Panic

parent(self) ==
    IF self.len > 0 THEN NodeName(self.len - 1, self.path \div 2) ELSE Panic

left(self) ==
    IF self.len >= 0 /\ self.len < Depth
    THEN NodeName(self.len + 1, shl1(self.path))
    ELSE Panic

right(self) ==
    IF self.len >= 0 /\ self.len < Depth
    THEN NodeName(self.len + 1, BitOr(shl1(self.path), 1))
    ELSE Panic

\* next() that treats every leaf as the last address
next_leaf_end(self) ==
    IF is_leaf(self) THEN None ELSE left(self)

\* next() without the climb: the right child of the leaf's own parent
next_no_climb(self) ==
    IF self = MAX THEN None
    ELSE IF len(self) < Depth THEN left(self)
    ELSE right(parent(self))

RECURSIVE next_climb(_)
next_climb(self) ==
    IF self = Panic THEN Panic
    ELSE IF self = right(parent(self)) THEN next_climb(parent(self))
    ELSE self

\* next() without the test for MAX
next_no_max(self) ==
    IF len(self) < Depth THEN left(self)
    ELSE right(parent(next_climb(self)))

next(self) ==
    IF self = MAX THEN None
    ELSE IF len(self) < Depth THEN left(self)
    ELSE right(parent(next_climb(self)))

\* the while loop of walk(): parents, self first; ArrayVec of capacity Depth
RECURSIVE walk_parents(_, _)
walk_parents(self, parents) ==
    IF is_empty(self) THEN parents
    ELSE IF Len(parents) >= Depth \/ self.len < 0 THEN <<Panic>>
    ELSE walk_parents(parent(self), Append(parents, self))

reverse(s) == [i \in 1..Len(s) |-> s[Len(s) + 1 - i]]

\* walk() without parents.reverse()
walk_unreversed(self) == walk_parents(self, <<>>)

walk(self) == reverse(walk_parents(self, <<>>))

\* the loop of from_numbering() with number > cutoff for the right step
RECURSIVE from_numbering_loop_gt(_, _, _)
from_numbering_loop_gt(number, node, cutoff) ==
    IF cutoff > 0
    THEN IF number = 0 THEN node
         ELSE IF number > cutoff
              THEN from_numbering_loop_gt(number - cutoff, right(node), cutoff \div 2)
              ELSE from_numbering_loop_gt(number - 1, left(node), cutoff \div 2)
    ELSE node

RECURSIVE from_numbering_loop(_, _, _)
from_numbering_loop(number, node, cutoff) ==
    IF cutoff > 0
    THEN IF number = 0 THEN node
         ELSE IF number >= cutoff
              THEN from_numbering_loop(number - cutoff, right(node), cutoff \div 2)
              ELSE from_numbering_loop(number - 1, left(node), cutoff \div 2)
    ELSE node

from_numbering(number) ==
    IF number < pow(Depth + 1) - 1
    THEN from_numbering_loop(number, ROOT, pow(Depth))
    ELSE Panic

\* the loop of to_numbering() without bonus /= 2
RECURSIVE to_numbering_loop_fixed_bonus(_, _, _, _)
to_numbering_loop_fixed_bonus(nodes, i, result, bonus) ==
    IF i > Len(nodes) THEN result
    ELSE IF nodes[i] = left(parent(nodes[i]))
         THEN to_numbering_loop_fixed_bonus(nodes, i + 1, result + 1, bonus)
         ELSE to_numbering_loop_fixed_bonus(nodes, i + 1, result + bonus, bonus)

RECURSIVE to_numbering_loop(_, _, _, _)
to_numbering_loop(nodes, i, result, bonus) ==
    IF i > Len(nodes) THEN result
    ELSE IF nodes[i] = left(parent(nodes[i]))
         THEN to_numbering_loop(nodes, i + 1, result + 1, bonus \div 2)
         ELSE to_numbering_loop(nodes, i + 1, result + bonus, bonus \div 2)

to_numbering(self) == to_numbering_loop(walk(self), 1, 0, pow(Depth))

\* in_subtree() without the test for ROOT
in_subtree_no_root(self, other) ==
    /\ len(self) >= len(other)
    /\ \E i \in 1..Len(walk(self)) : walk(self)[i] = other

in_subtree(self, other) ==
    \/ other = ROOT
    \/ /\ len(self) >= len(other)
       /\ \E i \in 1..Len(walk(self)) : walk(self)[i] = other

\* every address: length 0..Depth, canonical path
NodeNames == { n \in [len : 0..Depth, path : 0..PATH_MAX] : n.path < pow(n.len) }

\* the arguments from_numbering accepts
Numbers == 0..(pow(Depth + 1) - 2)

----------------------------------------------------------------------------
(* The binary tree encryption primitive bte, by its contract.  A secret    *)
(* key is described by the key pair it stems from and the address it is    *)
(* the key of; the randomness that der and enc consume re-randomises the   *)
(* representation only and is left out.                                    *)

\* the outcomes of the random source handed to generate_keypair
Seeds == {1, 2}

\* the target group, of which Gt::random draws one element
Gt == {0, 1}

\* a key derived from a key that is not the key of the address given
BadKey == [pk |-> 0, owner |-> None]

\* bte::gen(rng) -> (PK, SK of ROOT)
bte_gen(rng) == <<rng, [pk |-> rng, owner |-> ROOT]>>

\* bte::der(rng, name, sk) -> (SK of name.left(), SK of name.right())
bte_der(name, key) ==
    IF key.owner = name /\ ~is_leaf(name)
    THEN <<[pk |-> key.pk, owner |-> left(name)], [pk |-> key.pk, owner |-> right(name)]>>
    ELSE <<BadKey, BadKey>>

\* bte::enc(rng, pk, name, element)
bte_enc(inner_key, name, element) == [pk |-> inner_key, name |-> name, element |-> element]

\* bte::dec(pk, name, sk, ciphertext): the element that was encrypted when sk
\* is the key of name and the ciphertext was made for name under the same key
\* pair, an unrelated element otherwise (the set of the possible results)
bte_dec(public_key, name, key, hidden_key) ==
    IF /\ key.owner = name
       /\ hidden_key.name = name
       /\ key.pk = hidden_key.pk
       /\ public_key = hidden_key.pk
    THEN {hidden_key.element}
    ELSE Gt \ {hidden_key.element}

----------------------------------------------------------------------------
(* lib.rs: the hybrid encryption and the two ratchets.                     *)

\* the payloads handed to encrypt (bytes are scaled to two bits)
Payloads == {<<>>, <<1, 2>>}

\* kdf: hash of a group element, truncated to the AES key; distinct elements
\* give distinct keys
kdf(group_element) == (3 * group_element + 1) % 4

\* Aes128Ctr64LE::new(key, IV).apply_keystream(payload): XOR with the
\* keystream of the key; the keystreams of two keys differ at every byte
keystream(aes_key, i) == (aes_key + i) % 4

apply_keystream(aes_key, payload) ==
    [i \in 1..Len(payload) |-> BitXor(payload[i], keystream(aes_key, i))]

NoCiphertext == [hidden_key |-> bte_enc(0, None, 0), payload |-> <<>>, made |-> FALSE]

\* PublicKey::ratchet that computes the next name and does not store it
PublicKey_ratchet_noop(self) ==
    LET next_name == next(self.current_name) IN
    IF next_name = None THEN [status |-> "Exhausted", self |-> self]
    ELSE IF next_name = Panic THEN [status |-> "Panic", self |-> self]
    ELSE [status |-> "Ok", self |-> self]

\* PublicKey::ratchet
PublicKey_ratchet(self) ==
    LET next_name == next(self.current_name) IN
    IF next_name = None THEN [status |-> "Exhausted", self |-> self]
    ELSE IF next_name = Panic THEN [status |-> "Panic", self |-> self]
    ELSE [status |-> "Ok", self |-> [self EXCEPT !.current_name = next_name]]

\* PublicKey::encrypt that binds the element to ROOT, not to current_name
PublicKey_encrypt_root(self, key, payload) ==
    [hidden_key |-> bte_enc(self.inner_key, ROOT, key),
     payload |-> apply_keystream(kdf(key), payload),
     made |-> TRUE]

\* PublicKey::encrypt; key is the element Gt::random drew
PublicKey_encrypt(self, key, payload) ==
    [hidden_key |-> bte_enc(self.inner_key, self.current_name, key),
     payload |-> apply_keystream(kdf(key), payload),
     made |-> TRUE]

\* Vec::pop: the vector without its last element
pop(stack) == SubSeq(stack, 1, Len(stack) - 1)

\* Vec::last
last(stack) == stack[Len(stack)]

\* PrivateKey::ratchet pushing left before right (right ends on top)
PrivateKey_ratchet_swapped(self) ==
    LET next_name == next(self.current_name) IN
    IF next_name = None THEN [status |-> "Exhausted", self |-> self]
    ELSE IF next_name = Panic \/ Len(self.keystack) = 0
    THEN [status |-> "Panic", self |-> self]
    ELSE LET current_key == last(self.keystack)
             popped == pop(self.keystack)
             derived == bte_der(self.current_name, current_key)
             keystack == IF ~is_leaf(self.current_name)
                         THEN Append(Append(popped, derived[1]), derived[2])
                         ELSE popped
         IN [status |-> "Ok",
             self |-> [self EXCEPT !.keystack = keystack, !.current_name = next_name]]

\* PrivateKey::ratchet reading the top with last() and leaving it on the
\* stack when it derives the children
PrivateKey_ratchet_keep(self) ==
    LET next_name == next(self.current_name) IN
    IF next_name = None THEN [status |-> "Exhausted", self |-> self]
    ELSE IF next_name = Panic \/ Len(self.keystack) = 0
    THEN [status |-> "Panic", self |-> self]
    ELSE LET current_key == last(self.keystack)
             popped == pop(self.keystack)
             derived == bte_der(self.current_name, current_key)
             keystack == IF ~is_leaf(self.current_name)
                         THEN Append(Append(self.keystack, derived[2]), derived[1])
                         ELSE popped
         IN [status |-> "Ok",
             self |-> [self EXCEPT !.keystack = keystack, !.current_name = next_name]]

\* PrivateKey::ratchet pushing the left key only
PrivateKey_ratchet_left_only(self) ==
    LET next_name == next(self.current_name) IN
    IF next_name = None THEN [status |-> "Exhausted", self |-> self]
    ELSE IF next_name = Panic \/ Len(self.keystack) = 0
    THEN [status |-> "Panic", self |-> self]
    ELSE LET current_key == last(self.keystack)
             popped == pop(self.keystack)
             derived == bte_der(self.current_name, current_key)
             keystack == IF ~is_leaf(self.current_name)
                         THEN Append(popped, derived[1])
                         ELSE popped
         IN [status |-> "Ok",
             self |-> [self EXCEPT !.keystack = keystack, !.current_name = next_name]]

\* PrivateKey::ratchet that pops the key before it asks for the next name
PrivateKey_ratchet_pop_first(self) ==
    LET next_name == next(self.current_name) IN
    IF Len(self.keystack) = 0 THEN [status |-> "Panic", self |-> self]
    ELSE IF next_name = None
    THEN [status |-> "Exhausted", self |-> [self EXCEPT !.keystack = pop(self.keystack)]]
    ELSE IF next_name = Panic THEN [status |-> "Panic", self |-> self]
    ELSE LET current_key == last(self.keystack)
             popped == pop(self.keystack)
             derived == bte_der(self.current_name, current_key)
             keystack == IF ~is_leaf(self.current_name)
                         THEN Append(Append(popped, derived[2]), derived[1])
                         ELSE popped
         IN [status |-> "Ok",
             self |-> [self EXCEPT !.keystack = keystack, !.current_name = next_name]]

\* PrivateKey::ratchet
PrivateKey_ratchet(self) ==
    LET next_name == next(self.current_name) IN
    IF next_name = None THEN [status |-> "Exhausted", self |-> self]
    ELSE IF next_name = Panic \/ Len(self.keystack) = 0
    THEN [status |-> "Panic", self |-> self]
    ELSE LET current_key == last(self.keystack)
             popped == pop(self.keystack)
             derived == bte_der(self.current_name, current_key)
             keystack == IF ~is_leaf(self.current_name)
                         THEN Append(Append(popped, derived[2]), derived[1])
                         ELSE popped
         IN [status |-> "Ok",
             self |-> [self EXCEPT !.keystack = keystack, !.current_name = next_name]]

\* PrivateKey::decrypt; key is the element bte::dec returned
PrivateKey_decrypt(self, key, ciphertext) ==
    apply_keystream(kdf(key), ciphertext.payload)

\* the results bte::dec can have in PrivateKey::decrypt
decrypt_keys(self, ciphertext) ==
    bte_dec(self.public_key, self.current_name, last(self.keystack), ciphertext.hidden_key)

\* generate_keypair
generate_keypair(rng) ==
    LET inner == bte_gen(rng) IN
    <<[inner_key |-> inner[1], current_name |-> ROOT],
      [public_key |-> inner[1], keystack |-> <<inner[2]>>, current_name |-> ROOT]>>

----------------------------------------------------------------------------
(* The protocol: one key pair, its two halves ratcheted independently,     *)
(* one ciphertext in flight.                                               *)

\* ret: the call made last, what it returned and, for decrypt, the payload
\* and the number of public ratchets of the encrypt call it answers
Returned(op, status) ==
    [op |-> op, status |-> status, plain |-> <<>>, message |-> <<>>, pk_ratchets |-> 0]

NoSent == [message |-> <<>>, pk_ratchets |-> 0]

\* number of successful ratchet calls so far
PkRatchets == Len(pk_trail) - 1
SkRatchets == Len(sk_trail) - 1

InitProtocol ==
    \E rng \in Seeds :
        LET pair == generate_keypair(rng) IN
        /\ pk = pair[1]
        /\ sk = pair[2]
        /\ ct = NoCiphertext
        /\ sent = NoSent
        /\ ret = Returned("generate_keypair", "Ok")
        /\ panicked = FALSE
        /\ pk_trail = <<pair[1].current_name>>
        /\ sk_trail = <<pair[2].current_name>>

InitNodeName ==
    /\ nn_self = ROOT
    /\ nn_other = ROOT
    /\ nn_number = 0
    /\ nn_out = [fn |-> "none", out |-> <<>>]

Init == InitProtocol /\ InitNodeName

PublicRatchet ==
    /\ ~panicked
    /\ LET r == PublicKey_ratchet(pk) IN
       /\ pk' = r.self
       /\ ret' = Returned("PublicKey::ratchet", r.status)
       /\ panicked' = (r.status = "Panic")
       /\ pk_trail' = IF r.status = "Ok" THEN Append(pk_trail, r.self.current_name)
                      ELSE pk_trail
    /\ UNCHANGED <<sk, ct, sent, sk_trail>>
    /\ UNCHANGED nodename_vars

PrivateRatchet ==
    /\ ~panicked
    /\ LET r == PrivateKey_ratchet(sk) IN
       /\ sk' = r.self
       /\ ret' = Returned("PrivateKey::ratchet", r.status)
       /\ panicked' = (r.status = "Panic")
       /\ sk_trail' = IF r.status = "Ok" THEN Append(sk_trail, r.self.current_name)
                      ELSE sk_trail
    /\ UNCHANGED <<pk, ct, sent, pk_trail>>
    /\ UNCHANGED nodename_vars

Encrypt ==
    /\ ~panicked
    /\ \E key \in Gt, payload \in Payloads :
        /\ ct' = PublicKey_encrypt(pk, key, payload)
        /\ sent' = [message |-> payload, pk_ratchets |-> PkRatchets]
    /\ ret' = Returned("PublicKey::encrypt", "Ok")
    /\ UNCHANGED <<pk, sk, panicked, pk_trail, sk_trail>>
    /\ UNCHANGED nodename_vars

Decrypt ==
    /\ ~panicked
    /\ ct.made
    /\ IF Len(sk.keystack) = 0
       THEN /\ panicked' = TRUE
            /\ ret' = Returned("PrivateKey::decrypt", "Panic")
       ELSE /\ panicked' = FALSE
            /\ \E key \in decrypt_keys(sk, ct) :
                ret' = [op |-> "PrivateKey::decrypt", status |-> "Ok",
                        plain |-> PrivateKey_decrypt(sk, key, ct),
                        message |-> sent.message,
                        pk_ratchets |-> sent.pk_ratchets]
    /\ ct' = NoCiphertext
    /\ sent' = NoSent
    /\ UNCHANGED <<pk, sk, pk_trail, sk_trail>>
    /\ UNCHANGED nodename_vars

Next == PublicRatchet \/ PrivateRatchet \/ Encrypt \/ Decrypt

Spec == Init /\ [][Next]_vars

\* the key pair under ratchet calls alone
NextRatchet == PublicRatchet \/ PrivateRatchet

SpecRatchet == Init /\ [][NextRatchet]_vars

\* ratchet called again and again, on either key, as long as a call can
\* still change something
SpecRatchetFair ==
    /\ SpecRatchet
    /\ WF_vars(NextRatchet)

----------------------------------------------------------------------------
(* The NodeName functions on their own: an address and a number are drawn, *)
(* and each call applies one function to them.                             *)

InitCalls ==
    /\ InitProtocol
    /\ nn_self \in NodeNames
    /\ nn_other = ROOT
    /\ nn_number \in Numbers
    /\ nn_out = [fn |-> "none", out |-> <<>>]

Call(fn, out) ==
    /\ nn_out' = [fn |-> fn, out |-> out]
    /\ UNCHANGED <<nn_self, nn_other, nn_number>>
    /\ UNCHANGED protocol_vars

CallNext == Call("next", next(nn_self))

CallWalk == Call("walk", walk(nn_self))

CallToNumbering == Call("to_numbering", to_numbering(nn_self))

CallFromNumbering == Call("from_numbering", from_numbering(nn_number))

CallLeft == Call("left", left(nn_self))

CallRight == Call("right", right(nn_self))

CallParent == Call("parent", parent(nn_self))

\* new(length, path) with the length of nn_self and any u32 path
CallNew ==
    /\ nn_number <= PATH_MAX
    /\ Call("new", new(len(nn_self), nn_number))

NextCall ==
    \/ CallNext
    \/ CallWalk
    \/ CallToNumbering
    \/ CallFromNumbering
    \/ CallLeft
    \/ CallRight
    \/ CallParent
    \/ CallNew

SpecNodeName == InitCalls /\ [][NextCall]_vars

\* in_subtree on two drawn addresses
InitInSubtree ==
    /\ InitProtocol
    /\ nn_self \in NodeNames
    /\ nn_other \in NodeNames
    /\ nn_number = 0
    /\ nn_out = [fn |-> "none", out |-> <<>>]

CallInSubtree == Call("in_subtree", in_subtree(nn_self, nn_other))

SpecInSubtree == InitInSubtree /\ [][CallInSubtree]_vars

----------------------------------------------------------------------------
(* Properties of the private key's keystack.                               *)

\* the secret key of an address: the root key of the key pair at ROOT, and
\* below it what der gives for the parent's key
RECURSIVE KeyOf(_, _)
KeyOf(seed, name) ==
    IF name = ROOT THEN bte_gen(seed)[2]
    ELSE LET derived == bte_der(parent(name), KeyOf(seed, parent(name))) IN
         IF name = left(parent(name)) THEN derived[1] ELSE derived[2]

\* the last successful PrivateKey::ratchet call started at a leaf / an inner node
AfterLeafStep ==
    /\ ret.op = "PrivateKey::ratchet"
    /\ ret.status = "Ok"
    /\ is_leaf(sk_trail[Len(sk_trail) - 1])

AfterInnerStep ==
    /\ ret.op = "PrivateKey::ratchet"
    /\ ret.status = "Ok"
    /\ ~is_leaf(sk_trail[Len(sk_trail) - 1])

\* C1: in every state reached from generate_keypair by ratchet calls, the
\* keystack is not empty and its top is the secret key of current_name.
C1_TopIsCurrentKey ==
    /\ Len(sk.keystack) > 0
    /\ last(sk.keystack) = KeyOf(sk.public_key, sk.current_name)
    /\ last(sk.keystack).owner = sk.current_name

\* C1 witness: a ratchet from a leaf has uncovered a key staged earlier, and
\* a failed ratchet at MAX has left the key of MAX on top.
C1_Witness ==
    \/ /\ AfterLeafStep
       /\ Len(sk_trail) > Depth + 2
       /\ last(sk.keystack).owner = sk.current_name
    \/ /\ ret.op = "PrivateKey::ratchet"
       /\ ret.status = "Exhausted"
       /\ last(sk.keystack).owner = MAX

\* a is p or an ancestor of p
IsAncestorOrSelf(a, p) ==
    /\ a.len >= 0
    /\ a.len <= p.len
    /\ a.path = p.path \div pow(p.len - a.len)

\* the keys that der yields from a set of keys, in any number of steps
RECURSIVE Derivable(_, _)
Derivable(keys, steps) ==
    IF steps = 0 THEN keys
    ELSE Derivable(keys \cup UNION { { bte_der(k.owner, k)[1], bte_der(k.owner, k)[2] } :
                                     k \in { x \in keys : x.owner.len >= 0 /\ ~is_leaf(x.owner) } },
                   steps - 1)

KeystackKeys == { sk.keystack[i] : i \in 1..Len(sk.keystack) }

PastNames == { sk_trail[i] : i \in 1..(Len(sk_trail) - 1) }

\* C2: for every address p that was current earlier, no key of the keystack
\* belongs to p or to an ancestor of p, the key of p cannot be derived from
\* the keystack, and current_name is none of the earlier addresses.
C2_ForwardSecrecy ==
    /\ \A p \in PastNames :
        /\ \A k \in KeystackKeys : ~IsAncestorOrSelf(k.owner, p)
        /\ KeyOf(sk.public_key, p) \notin Derivable(KeystackKeys, Depth)
    /\ sk.current_name \notin PastNames

\* C2 witness: past addresses exist, among them a leaf and the root, while
\* the keystack still holds several keys.
C2_Witness ==
    /\ ROOT \in PastNames
    /\ \E p \in PastNames : is_leaf(p)
    /\ Len(sk.keystack) > 1
    /\ AfterLeafStep

\* current_name and every address after it in next() order
RECURSIVE Future(_)
Future(name) ==
    IF name = None \/ name = Panic THEN {}
    ELSE {name} \cup Future(next(name))

\* the addresses in the subtree of the owner of a key
SubtreeOf(key) == { n \in NodeNames : in_subtree(n, key.owner) }

\* C3: every address that is current_name or comes after it lies in the
\* subtree of exactly one key of the keystack, and the subtrees of the keys
\* of the keystack are pairwise disjoint.
C3_FrontierCompleteMinimal ==
    /\ \A a \in Future(sk.current_name) :
        Cardinality({ i \in 1..Len(sk.keystack) : in_subtree(a, sk.keystack[i].owner) }) = 1
    /\ \A i, j \in 1..Len(sk.keystack) :
        i # j => SubtreeOf(sk.keystack[i]) \cap SubtreeOf(sk.keystack[j]) = {}
    /\ \A a \in Future(sk.current_name) :
        KeyOf(sk.public_key, a) \in Derivable(KeystackKeys, Depth)

\* C3 witness: a keystack of several keys whose subtrees cover more than
\* the keys themselves, after steps of both kinds.
C3_Witness ==
    /\ Len(sk.keystack) = 3
    /\ Cardinality(Future(sk.current_name)) > 3
    /\ \E p \in PastNames : is_leaf(p)

\* C9: the keystack never holds more than Depth + 1 keys (33 in the program).
C9_KeystackBounded == Len(sk.keystack) <= Depth + 1

\* C9 witness: the keystack holds Depth + 1 keys (at the leftmost leaf).
C9_Witness ==
    /\ Len(sk.keystack) = Depth + 1
    /\ is_leaf(sk.current_name)
    /\ AfterInnerStep

----------------------------------------------------------------------------
(* Properties of encrypt and decrypt.                                      *)

\* the call made last is a decrypt whose ciphertext was made after as many
\* public ratchets as the private key has had / after another number
DecryptedInSync ==
    /\ ret.op = "PrivateKey::decrypt"
    /\ ret.pk_ratchets = SkRatchets

DecryptedOutOfSync ==
    /\ ret.op = "PrivateKey::decrypt"
    /\ ret.pk_ratchets # SkRatchets

\* C4: after the same number of ratchets both keys hold the same address,
\* and decrypt returns exactly the payload that encrypt was given.
C4_SynchronizedRoundTrip ==
    /\ PkRatchets = SkRatchets => pk.current_name = sk.current_name
    /\ DecryptedInSync => ret.status = "Ok" /\ ret.plain = ret.message

\* C4 witness: a non-empty payload recovered after Depth + 1 ratchets of
\* both keys (33 in the program).
C4_Witness ==
    /\ DecryptedInSync
    /\ SkRatchets = Depth + 1
    /\ ret.message = <<1, 2>>
    /\ ret.plain = ret.message

\* C5 as stated: after different numbers of ratchets decrypt returns Ok
\* with bytes that differ from the payload.
C5_DesyncDiffers ==
    DecryptedOutOfSync => ret.status = "Ok" /\ ret.plain # ret.message

\* C5 amended: after different numbers of ratchets decrypt returns Ok with
\* as many bytes as the payload, and they differ from the payload when the
\* payload is not empty.
C5_DesyncDiffersNonEmpty ==
    DecryptedOutOfSync =>
        /\ ret.status = "Ok"
        /\ Len(ret.plain) = Len(ret.message)
        /\ ret.message # <<>> => ret.plain # ret.message

\* C5 witness: the public key one ratchet ahead, a non-empty payload, and
\* other bytes returned.
C5_Witness ==
    /\ DecryptedOutOfSync
    /\ ret.pk_ratchets = SkRatchets + 1
    /\ ret.status = "Ok"
    /\ ret.message = <<1, 2>>
    /\ ret.plain # ret.message

----------------------------------------------------------------------------
(* Properties of the traversal.                                            *)

PublicExhausted == ret.op = "PublicKey::ratchet" /\ ret.status = "Exhausted"

PrivateExhausted == ret.op = "PrivateKey::ratchet" /\ ret.status = "Exhausted"

\* number of addresses of the tree: 2^(Depth+1) - 1
NodeCount == pow(Depth + 1) - 1

\* C6 as stated: ratchet returns Exhausted after exactly 2^(Depth+1) - 1
\* successful calls.
C6_ExhaustedAfterNodeCount ==
    /\ PublicExhausted => PkRatchets = NodeCount
    /\ PrivateExhausted => SkRatchets = NodeCount

\* C6 amended: exactly 2^(Depth+1) - 2 ratchet calls succeed on either key,
\* and the call after them returns Exhausted.
C6_ExhaustedAfterNodeCountLessOne ==
    /\ PkRatchets <= NodeCount - 1
    /\ SkRatchets <= NodeCount - 1
    /\ PublicExhausted => PkRatchets = NodeCount - 1
    /\ PrivateExhausted => SkRatchets = NodeCount - 1
    /\ PkRatchets = NodeCount - 1 => PublicKey_ratchet(pk).status = "Exhausted"
    /\ SkRatchets = NodeCount - 1 => PrivateKey_ratchet(sk).status = "Exhausted"
    /\ PkRatchets < NodeCount - 1 => PublicKey_ratchet(pk).status = "Ok"
    /\ SkRatchets < NodeCount - 1 => PrivateKey_ratchet(sk).status = "Ok"

\* C6 witness: both keys have returned Exhausted.
C6_Witness ==
    /\ PrivateExhausted
    /\ SkRatchets = NodeCount - 1
    /\ PkRatchets = NodeCount - 1
    /\ pk.current_name = MAX

\* a node, then its whole left subtree, then its whole right subtree
RECURSIVE Preorder(_)
Preorder(n) ==
    IF is_leaf(n) THEN <<n>>
    ELSE <<n>> \o Preorder(left(n)) \o Preorder(right(n))

\* C7: iterating next() from ROOT visits the addresses in preorder, each
\* once and none skipped; ROOT is followed by its left child, a leaf that is
\* a left child by its right sibling, and next() is None exactly at MAX.
C7_NextIsPreorderSuccessor ==
    /\ pk_trail = SubSeq(Preorder(ROOT), 1, Len(pk_trail))
    /\ \A i, j \in 1..Len(pk_trail) : i # j => pk_trail[i] # pk_trail[j]
    /\ pk.current_name = MAX =>
        /\ Len(pk_trail) = NodeCount
        /\ { pk_trail[i] : i \in 1..Len(pk_trail) } = NodeNames
    /\ Len(pk_trail) > 1 => pk_trail[2] = left(ROOT)
    /\ \A i \in 1..(Len(pk_trail) - 1) :
        is_leaf(pk_trail[i]) /\ pk_trail[i] = left(parent(pk_trail[i]))
            => pk_trail[i + 1] = right(parent(pk_trail[i]))
    /\ (next(pk.current_name) = None) <=> (pk.current_name = MAX)
    /\ PublicExhausted => pk.current_name = MAX

\* C7 witness: the iteration has come to MAX.
C7_Witness ==
    /\ pk.current_name = MAX
    /\ Len(pk_trail) = NodeCount
    /\ PublicExhausted

----------------------------------------------------------------------------
(* Properties of the NodeName functions.                                   *)

\* C8: from_numbering(to_numbering(n)) = n for every address n, with a
\* number in 0 .. 2^(Depth+1) - 2 and 0 for ROOT;
\* to_numbering(from_numbering(k)) = k for every k in that range, and
\* from_numbering(k) is an address (it never steps below a leaf).
C8_NumberingBijection ==
    /\ nn_out.fn = "to_numbering" =>
        /\ nn_out.out \in Numbers
        /\ from_numbering(nn_out.out) = nn_self
        /\ nn_self = ROOT => nn_out.out = 0
    /\ nn_out.fn = "from_numbering" =>
        /\ nn_out.out \in NodeNames
        /\ to_numbering(nn_out.out) = nn_number

\* C8 witness: the largest number gives the last leaf.
C8_Witness ==
    /\ nn_out.fn = "from_numbering"
    /\ nn_number = NodeCount - 1
    /\ nn_out.out = MAX

\* the ancestor of self at depth i (self when i is its length)
AncestorAt(self, i) == NodeName(i, self.path \div pow(self.len - i))

\* C10 as stated: walk() yields the addresses from ROOT to self, both
\* included, root first.
C10_WalkFromRoot ==
    nn_out.fn = "walk" =>
        /\ Len(nn_out.out) = nn_self.len + 1
        /\ Len(nn_out.out) <= Depth + 1
        /\ \A i \in 1..Len(nn_out.out) : nn_out.out[i] = AncestorAt(nn_self, i - 1)

\* C10 amended: walk() yields the addresses from the child of ROOT on the
\* path to self up to self, root side first: ROOT is left out, self is
\* included (unless it is ROOT), there are at most Depth elements (32 in
\* the program), and ROOT.walk() yields nothing.
C10_WalkBelowRoot ==
    nn_out.fn = "walk" =>
        /\ Len(nn_out.out) = nn_self.len
        /\ Len(nn_out.out) <= Depth
        /\ \A i \in 1..Len(nn_out.out) : nn_out.out[i] = AncestorAt(nn_self, i)
        /\ nn_self = ROOT => nn_out.out = <<>>

\* C10 witness: the walk of the last leaf, Depth addresses ending in it.
C10_Witness ==
    /\ nn_out.fn = "walk"
    /\ nn_self = MAX
    /\ Len(nn_out.out) = Depth
    /\ nn_out.out[1] = right(ROOT)
    /\ nn_out.out[Depth] = MAX

\* the other child of the parent of a child
Sibling(n) == IF n = left(parent(n)) THEN right(parent(n)) ELSE left(parent(n))

\* C11: a.in_subtree(b) is true exactly when b is ROOT, or a is b, or a is a
\* descendant of b; so every address is in the subtree of ROOT, and no
\* address is in the subtrees of both children of a node.
C11_InSubtreeIsDescent ==
    nn_out.fn = "in_subtree" =>
        /\ nn_out.out <=> (nn_other = ROOT \/ IsAncestorOrSelf(nn_other, nn_self))
        /\ nn_other = ROOT => nn_out.out
        /\ nn_out.out /\ nn_other # ROOT => ~in_subtree(nn_self, Sibling(nn_other))
        /\ ~is_leaf(nn_other) /\ nn_self = left(nn_other) =>
            /\ ~in_subtree(nn_self, right(nn_other))
            /\ ~in_subtree(right(nn_other), nn_self)

\* C11 witness: a leaf found in the subtree of a proper ancestor other than
\* ROOT, and ROOT found outside the subtree of its child.
C11_Witness ==
    /\ nn_out.fn = "in_subtree"
    /\ \/ /\ nn_out.out
          /\ is_leaf(nn_self)
          /\ nn_other.len = 1
       \/ /\ ~nn_out.out
          /\ nn_self = ROOT
          /\ nn_other = left(ROOT)

\* bit i of a path
Bit(p, i) == (p \div pow(i)) % 2

\* an address in canonical form: no bit of the path set at a position >= length
IsCanonical(n) ==
    /\ n.len \in 0..Depth
    /\ n.path \in 0..PATH_MAX
    /\ \A i \in n.len..(Depth - 1) : Bit(n.path, i) = 0

\* C12: new(length, path) is canonical for every length and every path, and
\* so is every address that left, right, parent, next or from_numbering
\* yields from an address.
C12_CanonicalForm ==
    /\ nn_out.fn = "new" =>
        /\ IsCanonical(nn_out.out)
        /\ nn_out.out.len = nn_self.len
        /\ \A i \in 0..(nn_self.len - 1) : Bit(nn_out.out.path, i) = Bit(nn_number, i)
    /\ nn_out.fn \in {"left", "right", "parent", "next", "from_numbering"}
            /\ nn_out.out # None /\ nn_out.out # Panic
        => IsCanonical(nn_out.out)

\* C12 witness: new() has cleared set bits of a path at positions >= length.
C12_Witness ==
    /\ nn_out.fn = "new"
    /\ nn_self.len = 1
    /\ nn_number = PATH_MAX
    /\ nn_out.out = NodeName(1, 1)

\* C13: for every address n that is not a leaf, the parent of n.left() and
\* of n.right() is n, and the two children differ.
C13_ChildrenHaveParent ==
    /\ nn_out.fn = "left" /\ nn_self.len < Depth =>
        /\ parent(nn_out.out) = nn_self
        /\ nn_out.out # right(nn_self)
    /\ nn_out.fn = "right" /\ nn_self.len < Depth =>
        /\ parent(nn_out.out) = nn_self
        /\ nn_out.out # left(nn_self)

\* C13 witness: the right child of an inner address with a non-zero path.
C13_Witness ==
    /\ nn_out.fn = "right"
    /\ nn_self = NodeName(Depth - 1, 1)
    /\ nn_out.out = NodeName(Depth, 3)
    /\ parent(nn_out.out) = nn_self

----------------------------------------------------------------------------
(* Exhaustion.                                                             *)

\* a ratchet call made at MAX returns Exhausted and leaves the address at MAX
ExhaustedAtMax ==
    /\ pk.current_name = MAX /\ ret'.op = "PublicKey::ratchet" =>
        ret'.status = "Exhausted" /\ pk'.current_name = MAX
    /\ sk.current_name = MAX /\ ret'.op = "PrivateKey::ratchet" =>
        ret'.status = "Exhausted" /\ sk'.current_name = MAX
    /\ pk.current_name = MAX => pk'.current_name = MAX
    /\ sk.current_name = MAX => sk'.current_name = MAX

\* C14: with ratchet called again and again, either key comes to MAX, the
\* call after that returns Exhausted, and from then on every ratchet call
\* returns Exhausted with the address still MAX.
C14_ExhaustionIsReachedAndStable ==
    /\ <>[](pk.current_name = MAX /\ sk.current_name = MAX)
    /\ [][ExhaustedAtMax]_vars

\* C14 witness: both keys at MAX, and a further ratchet call has returned
\* Exhausted.
C14_Witness ==
    /\ pk.current_name = MAX
    /\ sk.current_name = MAX
    /\ PublicExhausted
    /\ Len(sk.keystack) = 1

----------------------------------------------------------------------------
(* The numbering against the traversal.                                    *)

\* C15: iterating next() from ROOT raises to_numbering() by exactly one at
\* every step, so after k successful ratchets a key is at from_numbering(k),
\* and the number of MAX is 2^(Depth+1) - 2.
C15_NextIncrementsNumbering ==
    /\ \A i \in 1..Len(pk_trail) : to_numbering(pk_trail[i]) = i - 1
    /\ \A i \in 1..(Len(pk_trail) - 1) :
        to_numbering(next(pk_trail[i])) = to_numbering(pk_trail[i]) + 1
    /\ pk.current_name = from_numbering(PkRatchets)
    /\ sk.current_name = from_numbering(SkRatchets)
    /\ pk.current_name = MAX => to_numbering(pk.current_name) = NodeCount - 1

\* C15 witness: the public key at MAX after 2^(Depth+1) - 2 ratchets, the
\* private key at the right child of ROOT, numbered 2^Depth.
C15_Witness ==
    /\ pk.current_name = MAX
    /\ to_numbering(pk.current_name) = PkRatchets
    /\ sk.current_name = right(ROOT)
    /\ to_numbering(sk.current_name) = pow(Depth)

----------------------------------------------------------------------------
(* Calls that must leave the keys alone.                                   *)

\* a call that returns Exhausted changes neither key
ExhaustedChangesNothing ==
    ret'.status = "Exhausted" =>
        /\ pk' = pk
        /\ sk' = sk
        /\ ct' = ct
        /\ ret'.op = "PublicKey::ratchet" => pk.current_name = MAX
        /\ ret'.op = "PrivateKey::ratchet" => sk.current_name = MAX

\* decrypt, in the current state, returns the payload for every ciphertext
\* that encrypt makes at MAX
DecryptsAtMax ==
    \A key \in Gt, payload \in Payloads :
        LET ciphertext == PublicKey_encrypt([pk EXCEPT !.current_name = MAX], key, payload) IN
        /\ Len(sk.keystack) > 0
        /\ \A got \in decrypt_keys(sk, ciphertext) :
            PrivateKey_decrypt(sk, got, ciphertext) = payload

\* C16: a ratchet that returns Exhausted leaves the state unchanged: the
\* public key keeps current_name = MAX, the private key keeps current_name
\* and its keystack with the key of MAX on top, and decrypt at MAX still
\* works after the failed call.
C16_ExhaustedLeavesState ==
    /\ [][ExhaustedChangesNothing]_vars
    /\ [](PublicExhausted => pk.current_name = MAX)
    /\ [](PrivateExhausted =>
            /\ sk.current_name = MAX
            /\ sk.keystack = <<KeyOf(sk.public_key, MAX)>>
            /\ DecryptsAtMax)

\* C16 witness: the private ratchet has failed at MAX while a ciphertext
\* made at MAX is in flight.
C16_Witness ==
    /\ PrivateExhausted
    /\ sk.current_name = MAX
    /\ ct.made
    /\ ct.hidden_key.name = MAX
    /\ sent.message = <<1, 2>>
    /\ DecryptsAtMax

----------------------------------------------------------------------------
(* Preconditions.                                                          *)

\* what the next PrivateKey::ratchet call hands to der: an address that is
\* not a leaf, together with the key of that address
DerivesWithOwnKey ==
    ~is_leaf(sk.current_name) /\ next(sk.current_name) # None =>
        /\ last(sk.keystack).owner = sk.current_name
        /\ bte_der(sk.current_name, last(sk.keystack))[1] # BadKey
        /\ bte_der(sk.current_name, last(sk.keystack))[2] # BadKey

\* C17: no call of ratchet, encrypt or decrypt runs into a failed
\* precondition: next() never takes the parent of ROOT or a child of a leaf,
\* the keystack is never empty when it is popped or read, and der only gets
\* an address that is not a leaf together with the key of that address.
C17_NoPreconditionFault ==
    /\ ~panicked
    /\ ret.status # "Panic"
    /\ next(pk.current_name) # Panic
    /\ next(sk.current_name) # Panic
    /\ PublicKey_ratchet(pk).status # "Panic"
    /\ PrivateKey_ratchet(sk).status # "Panic"
    /\ Len(sk.keystack) > 0
    /\ DerivesWithOwnKey
    /\ BadKey \notin KeystackKeys

\* C17 witness: decrypt has returned at MAX, after every address was passed
\* and the keystack went down to one key.
C17_Witness ==
    /\ ret.op = "PrivateKey::decrypt"
    /\ ret.status = "Ok"
    /\ sk.current_name = MAX
    /\ pk.current_name = MAX
    /\ Len(sk.keystack) = 1
    /\ ~panicked

----------------------------------------------------------------------------
(* The size of the keystack.                                               *)

\* number of left edges on the path from ROOT to an address
LeftEdges(n) == Cardinality({ i \in 0..(n.len - 1) : Bit(n.path, i) = 0 })

\* a successful ratchet from an inner address adds one key, from a leaf it
\* removes one
RatchetResizesByOne ==
    sk'.current_name # sk.current_name =>
        Len(sk'.keystack) =
            IF is_leaf(sk.current_name)
            THEN Len(sk.keystack) - 1
            ELSE Len(sk.keystack) + 1

\* C18: the keystack holds 1 + (number of left edges on the path from ROOT
\* to current_name) keys; a successful ratchet from an inner address grows
\* it by one, from a leaf shrinks it by one, and at MAX it holds one key.
C18_KeystackSize ==
    /\ [](Len(sk.keystack) = 1 + LeftEdges(sk.current_name))
    /\ [](sk.current_name = MAX => Len(sk.keystack) = 1)
    /\ [][RatchetResizesByOne]_vars

\* C18 witness: a leaf below a right and a left edge, with two keys, reached
\* by a ratchet from an inner address.
C18_Witness ==
    /\ AfterInnerStep
    /\ is_leaf(sk.current_name)
    /\ LeftEdges(sk.current_name) = 1
    /\ Len(sk.keystack) = 2
    /\ sk.current_name.path = PATH_MAX - 1

----------------------------------------------------------------------------
(* encrypt and decrypt.                                                    *)

\* encrypt and decrypt return Ok and change neither key; the ciphertext of
\* encrypt names the key pair and the address the public key has at the call
EncryptDecryptKeepKeys ==
    /\ ret'.op \in {"PublicKey::encrypt", "PrivateKey::decrypt"} =>
        /\ ret'.status = "Ok"
        /\ pk' = pk
        /\ sk' = sk
        /\ ~panicked'
    /\ ret'.op = "PublicKey::encrypt" =>
        /\ ct'.made
        /\ ct'.hidden_key.name = pk.current_name
        /\ ct'.hidden_key.pk = pk.inner_key
        /\ Len(ct'.payload) = Len(sent'.message)

\* C19: encrypt and decrypt change no ratchet state and never return an
\* error, in every reachable state, MAX included; the ciphertext is bound to
\* the address that was current when encrypt was called.
C19_EncryptDecryptPure ==
    /\ [][EncryptDecryptKeepKeys]_vars
    /\ [](ct.made => ct.hidden_key.name = pk_trail[sent.pk_ratchets + 1])
    /\ [](ret.op \in {"PublicKey::encrypt", "PrivateKey::decrypt"} => ret.status = "Ok")

\* C19 witness: encrypt has returned at MAX with a ciphertext bound to MAX,
\* the private key being at MAX as well.
C19_Witness ==
    /\ ret.op = "PublicKey::encrypt"
    /\ ret.status = "Ok"
    /\ pk.current_name = MAX
    /\ ct.hidden_key.name = MAX
    /\ sk.current_name = MAX

====
